---- MODULE Spec2Model ----
(***************************************************************************)
(* Model of the product-catalog service (routers/ProductType.py and        *)
(* routers/products.py): the relational store, the image store, the peer   *)
(* (POS) copy of ProductType, and the request handlers as step machines.   *)
(*                                                                         *)
(* Store isolation: a handler's write statements and its commit are one    *)
(* step (the backend holds the row locks from the first write to the       *)
(* commit, so no other request observes the state in between); every       *)
(* SELECT, every file operation and every HTTP call is a step of its own.  *)
(*                                                                         *)
(* Spec serves the mutating endpoints one request at a time, SpecTypes     *)
(* runs two ProductType requests concurrently, SpecReads serves the read   *)
(* endpoints while other services write the recipe and stock tables.       *)
(***************************************************************************)
EXTENDS Integers, Sequences, FiniteSets, TLC

\* ---------------------------------------------------------------- bounds
MaxTypeId == 2
MaxProdId == 2
MaxSizeId == 3
MaxFile   == 2
MaxReqs   == 2
MaxRecipe     == 2
MaxIngredient == 1
MaxMaterial   == 1
MaxEdits      == 2

TypeIds == 1..MaxTypeId
ProdIds == 1..MaxProdId
SizeIds == 1..MaxSizeId
Slots   == {1, 2}
RecipeIds     == 1..MaxRecipe
IngredientIds == 1..MaxIngredient
MaterialIds   == 1..MaxMaterial

\* ---------------------------------------------------------------- values
NoRow == [absent |-> TRUE]
None  == "None"
NoPath == <<>>          \* a NULL ProductImage

\* request bodies {productTypeName, SizeRequired} the callers send
TypeBodies == {<<"tea", 1>>, <<"Tea", 0>>, <<"cake", 0>>}

\* str.lower() / the case-insensitive collation, on the strings of the model
Lower(s) ==
    CASE s = "Tea"        -> "tea"
      [] s = "FOREIGN"    -> "foreign"
      [] s = "KEY"        -> "key"
      [] s = "The"        -> "the"
      [] s = "DELETE"     -> "delete"
      [] s = "REFERENCE"  -> "reference"
      [] OTHER            -> s

LowerWords(ws) == [i \in 1..Len(ws) |-> Lower(ws[i])]

\* Python's `pat in text`, on texts kept as sequences of words
Contains(ws, pat) ==
    \E i \in 1..(Len(ws) - Len(pat) + 1) : SubSeq(ws, i, i + Len(pat) - 1) = pat

\* productTypeName COLLATE Latin1_General_CI_AS = ?
SameNameCI(a, b) == Lower(a) = Lower(b)

\* Error texts the database driver can raise (str(e)).  The handlers use
\* T-SQL (OUTPUT INSERTED, COLLATE Latin1_General_CI_AS), whose text for a
\* DELETE that violates a foreign key is the REFERENCE wording.
MsgFkSqlServer == <<"The", "DELETE", "statement", "conflicted", "with", "the", "REFERENCE", "constraint">>
MsgFkSqlite    == <<"FOREIGN", "KEY", "constraint", "failed">>
MsgGeneric     == <<"connection", "lost">>
StoreFkMessages == {MsgFkSqlServer, MsgFkSqlite}

\* ---------------------------------------------------------------- state
VARIABLES
    types,      \* ProductType table: id -> row | NoRow
    peer,       \* the POS service's copy of ProductType
    products,   \* Products table: id -> row | NoRow
    sizes,      \* Size table: set of rows [id, pid, name]
    files,      \* physical files in UPLOAD_DIRECTORY_PHYSICAL
    nextTypeId, nextProdId, nextSizeId, nextFile,   \* identity / uuid4 freshness
    req,        \* per slot: the request being handled and its position
    started,    \* number of mutating requests begun
    reported,   \* ProductType ids for which a response carried a sync failure
    deleted,    \* ProductType ids whose delete committed
    recipes,            \* Recipes table: set of rows [id, pid]
    recipeIngredients,  \* RecipeIngredients table: set of rows [rid, iid]
    recipeMaterials,    \* RecipeMaterials table: set of rows [rid, mid]
    ingredients,        \* Ingredients table: id -> Status
    materials,          \* Materials table: id -> Status
    edits               \* number of writes the inventory services have made

vars == <<types, peer, products, sizes, files, nextTypeId, nextProdId,
          nextSizeId, nextFile, req, started, reported, deleted,
          recipes, recipeIngredients, recipeMaterials, ingredients, materials, edits>>

\* the tables this service only reads
stockVars == <<recipes, recipeIngredients, recipeMaterials, ingredients, materials, edits>>

ctrVars  == <<nextTypeId, nextProdId, nextSizeId, nextFile>>

NoResp == [status |-> 0, detail |-> "", sync |-> ""]

IdleReq == [op |-> "none", pc |-> "idle", id |-> 0, name |-> "", sr |-> 0,
            typeId |-> 0, cat |-> "", size |-> None, file |-> None,
            conn |-> "none", local |-> FALSE, committed |-> FALSE, called |-> FALSE,
            outcome |-> "", cause |-> "", img |-> NoPath, path |-> NoPath, newFile |-> 0,
            rolledBack |-> FALSE, snap |-> NoRow, before |-> {}, listing |-> <<>>,
            token |-> "", ans |-> "", rbFailed |-> FALSE, raised |-> NoResp,
            resp |-> NoResp]

TypeRow(n, s) == [name |-> n, sr |-> s]

Err(code, text) == [status |-> code, detail |-> text, sync |-> ""]

\* ---------------------------------------------------------------- identity
\* what GET /auth/users/me answers: a role, a 4xx status, or no answer
IdentityAnswers == {"manager", "staff", "cashier", "http401", "unreachable"}

\* variant: verify_admin without the userRole test
VerifyAdminAnyRole(ans) ==
    CASE ans = "http401"     -> Err(401, "Authentication failed")
      [] ans = "unreachable" -> Err(503, "Authentication service is unavailable")
      [] OTHER               -> NoResp

\* verify_admin: NoResp when the caller may proceed, else the error raised
VerifyAdmin(ans) ==
    CASE ans = "http401"     -> Err(401, "Authentication failed")
      [] ans = "unreachable" -> Err(503, "Authentication service is unavailable")
      [] ans # "manager"     -> Err(403, "manager role required")
      [] OTHER               -> NoResp

\* ---------------------------------------------------------------- helpers
Set(r, rec) == req' = [req EXCEPT ![r] = rec]

\* the handler ends: `finally` closes cursor and connection, the reply goes out
\* (cause: what made the handler fail, kept for the properties)
Finish(r, reply, why) ==
    Set(r, [req[r] EXCEPT !.pc = "done", !.conn = "closed", !.resp = reply, !.cause = why])

\* ... the same after `try: await conn.rollback() / except: log` in an except
\* branch (update, delete): a rollback that throws is swallowed
FinishRolledBack(r, reply, why) ==
    \E throws \in BOOLEAN :
        Set(r, [req[r] EXCEPT !.pc = "done", !.conn = "closed", !.resp = reply, !.cause = why,
                              !.raised = reply, !.rolledBack = ~throws, !.rbFailed = throws])

\* ... the same after a bare `await conn.rollback()` in an except branch
\* (create): a rollback that throws replaces the HTTPException being built,
\* and the framework answers its generic 500
FinishBareRollback(r, reply, why) ==
    \E throws \in BOOLEAN :
        Set(r, [req[r] EXCEPT !.pc = "done", !.conn = "closed", !.cause = why,
                              !.raised = reply, !.rolledBack = ~throws, !.rbFailed = throws,
                              !.resp = IF throws THEN Err(500, "Internal Server Error")
                                       ELSE reply])

Busy(q) == req[q].pc \notin {"idle", "done"}

\* a new request takes the lowest free slot
CanBegin(r) ==
    /\ ~Busy(r)
    /\ \A q \in Slots : q < r => Busy(q)
    /\ started < MaxReqs

Begin(r, rec) ==
    /\ CanBegin(r)
    /\ Set(r, rec)
    /\ started' = started + 1
    /\ UNCHANGED <<stockVars, types, peer, products, sizes, files, ctrVars, reported, deleted>>

\* a read request begins (reads are not counted in `started`)
BeginRead(r, rec) ==
    /\ CanBegin(r)
    /\ Set(r, rec)
    /\ UNCHANGED <<stockVars, types, peer, products, sizes, files, ctrVars, started,
                   reported, deleted>>

\* the bearer token of a read request: none sent, one the identity service
\* accepts, one it rejects
Tokens == {"absent", "valid", "expired"}

\* Depends(oauth2_scheme): 401 without an Authorization bearer header, else the
\* token string is handed to the handler, which does not use it
ReadScheme(r) ==
    /\ req[r].pc = "scheme"
    /\ IF req[r].token = "absent"
       THEN Set(r, [req[r] EXCEPT !.pc = "done", !.resp = Err(401, "Not authenticated")])
       ELSE Set(r, [req[r] EXCEPT !.pc = "connect"])
    /\ UNCHANGED <<stockVars, types, peer, products, sizes, files, ctrVars, started,
                   reported, deleted>>

\* Depends(verify_admin) runs before the handler body
TypeAuth(r) ==
    /\ req[r].pc = "auth"
    /\ req[r].op \in {"type_create", "type_update", "type_delete"}
    /\ \E ans \in IdentityAnswers :
         IF VerifyAdmin(ans) = NoResp
         THEN Set(r, [req[r] EXCEPT !.pc = "connect", !.ans = ans])
         ELSE Set(r, [req[r] EXCEPT !.pc = "done", !.ans = ans, !.resp = VerifyAdmin(ans)])
    /\ UNCHANGED <<stockVars, types, peer, products, sizes, files, ctrVars, started, reported, deleted>>

FirstStep(op) ==
    CASE op = "type_create" -> "check_name"
      [] op = "type_update" -> "check_exists"
      [] op = "type_delete" -> "check_exists"
      [] op = "type_list"   -> "select"
      [] op \in {"details_all", "details_one", "product_list"} -> "select"
      [] OTHER              -> "check"

TypeOps == {"type_create", "type_update", "type_delete", "type_list"}

\* the reply of the `except Exception` clause of the two details handlers
DetailsFailure == Err(500, "An error occurred while fetching product data.")

\* conn.cursor() raises.  ProductType.py creates the cursor before its `try`,
\* so no `finally` runs and the connection stays open; products.py creates it
\* inside `try`, whose `finally` closes the connection.
CursorFailure(r) ==
    IF req[r].op \in TypeOps
    THEN Set(r, [req[r] EXCEPT !.pc = "done", !.conn = "open", !.cause = "cursor_error",
                              !.outcome = "no_cursor",
                              !.resp = Err(500, "Internal Server Error")])
    ELSE IF req[r].op \in {"details_all", "details_one"}
    THEN Set(r, [req[r] EXCEPT !.pc = "done", !.conn = "closed", !.cause = "db_error",
                              !.outcome = "no_cursor", !.resp = DetailsFailure])
    ELSE Set(r, [req[r] EXCEPT !.pc = "done", !.conn = "closed", !.cause = "db_error",
                              !.outcome = "no_cursor",
                              !.resp = Err(500, "Internal Server Error")])

\* conn = await get_db_connection(); then the handler's first cursor
Connect(r) ==
    /\ req[r].pc = "connect"
    /\ \E cursor_ok \in BOOLEAN :
         IF cursor_ok
         THEN Set(r, [req[r] EXCEPT !.pc = FirstStep(req[r].op), !.conn = "open"])
         ELSE CursorFailure(r)
    /\ UNCHANGED <<stockVars, types, peer, products, sizes, files, ctrVars, started, reported, deleted>>

NameTaken(tbl, n) == \E i \in TypeIds : tbl[i] # NoRow /\ SameNameCI(tbl[i].name, n)

NameTakenByOther(tbl, n, id) ==
    \E i \in TypeIds : i # id /\ tbl[i] # NoRow /\ SameNameCI(tbl[i].name, n)

Referenced(prods, id) == \E p \in ProdIds : prods[p] # NoRow /\ prods[p].typeId = id

\* ---------------------------------------------------------------- ProductType create
InFlightCreates == Cardinality({q \in Slots : req[q].op = "type_create" /\ req[q].pc # "done"})

BeginTypeCreate(r) ==
    /\ nextTypeId + InFlightCreates <= MaxTypeId      \* identity values stay within the bound
    /\ \E b \in TypeBodies :
        Begin(r, [IdleReq EXCEPT !.op = "type_create", !.pc = "auth", !.name = b[1], !.sr = b[2]])

\* the reply of create's `except Exception` branch, which also catches the
\* HTTPException(400) raised for a taken name
CreateFailure(text) == Err(500, "Failed to save to DB")

TypeCreateCheck(r) ==
    /\ req[r].pc = "check_name" /\ req[r].op = "type_create"
    /\ \E fault \in BOOLEAN :
         IF fault
         THEN FinishBareRollback(r, CreateFailure("db error"), "db_error")
         ELSE IF NameTaken(types, req[r].name)
         THEN FinishBareRollback(r, CreateFailure("Product type name already exists."), "name_taken")
         ELSE Set(r, [req[r] EXCEPT !.pc = "insert"])
    /\ UNCHANGED <<stockVars, types, peer, products, sizes, files, ctrVars, started, reported, deleted>>

TypeCreateInsert(r) ==
    /\ req[r].pc = "insert" /\ req[r].op = "type_create"
    /\ \E outcome \in {"ok", "error", "noid"} :
         IF outcome = "ok"
         THEN /\ types' = [types EXCEPT ![nextTypeId] = TypeRow(req[r].name, req[r].sr)]
              /\ nextTypeId' = nextTypeId + 1
              /\ Set(r, [req[r] EXCEPT !.pc = "done", !.conn = "closed", !.id = nextTypeId,
                                      !.committed = TRUE,
                                      !.resp = [status |-> 200, detail |-> "created", sync |-> ""]])
         ELSE /\ FinishBareRollback(r, CreateFailure(outcome), "db_error")
              /\ UNCHANGED <<types, nextTypeId>>
    /\ UNCHANGED <<stockVars, peer, products, sizes, files, nextProdId, nextSizeId, nextFile,
                   started, reported, deleted>>

\* ---------------------------------------------------------------- peer sync
SyncOutcomes == {"ok", "http_error", "request_error", "exception"}

\* the sync_message_* text chosen by the try / except chain around the peer call
SyncMessage(outcome) ==
    CASE outcome = "ok"            -> "synced"
      [] outcome = "http_error"    -> "http_error"
      [] outcome = "request_error" -> "request_error"
      [] OTHER                     -> "unexpected_error"

SyncFailureTexts == {"http_error", "request_error", "unexpected_error"}

\* variant: a peer request error escapes the handler
SyncReplyPropagates(op, outcome) ==
    [status |-> IF outcome = "request_error" THEN 500 ELSE 200,
     detail |-> IF op = "type_update" THEN "updated" ELSE "deleted",
     sync   |-> SyncMessage(outcome)]

\* the value returned after the sync block
SyncReply(op, outcome) ==
    [status |-> 200,
     detail |-> IF op = "type_update" THEN "updated" ELSE "deleted",
     sync   |-> SyncMessage(outcome)]

\* what a 2xx answer of the peer means for its copy
PeerApply(p, op, id, row) ==
    IF op = "type_update" THEN [p EXCEPT ![id] = row] ELSE [p EXCEPT ![id] = NoRow]

\* `if local_*_success:` ... the PUT / DELETE to the POS service, then the return
TypeSync(r) ==
    /\ req[r].pc = "sync"
    /\ IF req[r].local
       THEN \E outcome \in SyncOutcomes :
              /\ outcome = "ok" => peer[req[r].id] # NoRow   \* the peer answers 2xx only for a row it has
              /\ peer' = IF outcome = "ok"
                         THEN PeerApply(peer, req[r].op, req[r].id, TypeRow(req[r].name, req[r].sr))
                         ELSE peer
              /\ reported' = IF SyncReply(req[r].op, outcome).sync \in SyncFailureTexts
                             THEN reported \cup {req[r].id} ELSE reported
              /\ Set(r, [req[r] EXCEPT !.pc = "done", !.called = TRUE, !.outcome = outcome,
                                      !.resp = SyncReply(req[r].op, outcome)])
       ELSE /\ Set(r, [req[r] EXCEPT !.pc = "done",
                                      !.resp = [SyncReply(req[r].op, "ok") EXCEPT !.sync = ""]])
            /\ UNCHANGED <<peer, reported>>
    /\ UNCHANGED <<stockVars, types, products, sizes, files, ctrVars, started, deleted>>

\* ---------------------------------------------------------------- ProductType update
BeginTypeUpdate(r) ==
    \E i \in TypeIds, b \in TypeBodies :
        Begin(r, [IdleReq EXCEPT !.op = "type_update", !.pc = "auth", !.id = i, !.name = b[1], !.sr = b[2]])

\* update's and delete's `except Exception` branch for a database error
UpdateFailure == Err(500, "Failed to update in primary DB")

TypeUpdateCheckExists(r) ==
    /\ req[r].pc = "check_exists" /\ req[r].op = "type_update"
    /\ \E fault \in BOOLEAN :
         IF fault
         THEN FinishRolledBack(r, UpdateFailure, "db_error")
         ELSE IF types[req[r].id] = NoRow
         THEN Finish(r, Err(404, "Product type not found"), "not_found")
         ELSE Set(r, [req[r] EXCEPT !.pc = "check_name", !.snap = types[req[r].id]])
    /\ UNCHANGED <<stockVars, types, peer, products, sizes, files, ctrVars, started, reported, deleted>>

\* variant: the collision SELECT without `AND productTypeID != ?`
UpdateCollidesAnyId(tbl, n, id) == NameTaken(tbl, n)

\* the second SELECT: another id with the same name under the CI collation
UpdateCollides(tbl, n, id) == NameTakenByOther(tbl, n, id)

TypeUpdateCheckName(r) ==
    /\ req[r].pc = "check_name" /\ req[r].op = "type_update"
    /\ \E fault \in BOOLEAN :
         IF fault
         THEN FinishRolledBack(r, UpdateFailure, "db_error")
         ELSE IF UpdateCollides(types, req[r].name, req[r].id)
         THEN Finish(r, Err(400, "Product type name already exists for another type"), "name_taken")
         ELSE Set(r, [req[r] EXCEPT !.pc = "write"])
    /\ UNCHANGED <<stockVars, types, peer, products, sizes, files, ctrVars, started, reported, deleted>>

\* variant: the success flag is raised before the commit and a failed commit is swallowed
TypeUpdateWriteFlagFirst(r) ==
    /\ req[r].pc = "write" /\ req[r].op = "type_update"
    /\ \E fault \in BOOLEAN :
         IF fault
         THEN Set(r, [req[r] EXCEPT !.pc = "sync", !.conn = "closed", !.local = TRUE,
                                   !.rolledBack = TRUE]) /\ UNCHANGED types
         ELSE IF types[req[r].id] = NoRow
         THEN Finish(r, Err(404, "Product type not found during update execution"), "no_row") /\ UNCHANGED types
         ELSE /\ types' = [types EXCEPT ![req[r].id] = TypeRow(req[r].name, req[r].sr)]
              /\ Set(r, [req[r] EXCEPT !.pc = "sync", !.conn = "closed", !.committed = TRUE,
                                      !.local = TRUE])
    /\ UNCHANGED <<stockVars, peer, products, sizes, files, ctrVars, started, reported, deleted>>

\* variant: the UPDATE is committed without the rowcount test
TypeUpdateWriteNoRowcount(r) ==
    /\ req[r].pc = "write" /\ req[r].op = "type_update"
    /\ \E fault \in BOOLEAN :
         IF fault
         THEN FinishRolledBack(r, UpdateFailure, "db_error") /\ UNCHANGED types
         ELSE /\ types' = IF types[req[r].id] = NoRow THEN types
                          ELSE [types EXCEPT ![req[r].id] = TypeRow(req[r].name, req[r].sr)]
              /\ Set(r, [req[r] EXCEPT !.pc = "sync", !.conn = "closed", !.committed = TRUE,
                                      !.local = TRUE])
    /\ UNCHANGED <<stockVars, peer, products, sizes, files, ctrVars, started, reported, deleted>>

\* UPDATE ...; rowcount test; commit
TypeUpdateWrite(r) ==
    /\ req[r].pc = "write" /\ req[r].op = "type_update"
    /\ \E fault \in BOOLEAN :
         IF fault
         THEN FinishRolledBack(r, UpdateFailure, "db_error") /\ UNCHANGED types
         ELSE IF types[req[r].id] = NoRow
         THEN Finish(r, Err(404, "Product type not found during update execution"), "no_row") /\ UNCHANGED types
         ELSE /\ types' = [types EXCEPT ![req[r].id] = TypeRow(req[r].name, req[r].sr)]
              /\ Set(r, [req[r] EXCEPT !.pc = "sync", !.conn = "closed", !.committed = TRUE,
                                      !.local = TRUE])
    /\ UNCHANGED <<stockVars, peer, products, sizes, files, ctrVars, started, reported, deleted>>

\* ---------------------------------------------------------------- ProductType delete
BeginTypeDelete(r) ==
    \E i \in TypeIds :
        Begin(r, [IdleReq EXCEPT !.op = "type_delete", !.pc = "auth", !.id = i])

TypeDeleteCheckExists(r) ==
    /\ req[r].pc = "check_exists" /\ req[r].op = "type_delete"
    /\ \E fault \in BOOLEAN :
         IF fault
         THEN FinishRolledBack(r, Err(500, "Failed to delete from primary DB"), "db_error")
         ELSE IF types[req[r].id] = NoRow
         THEN Finish(r, Err(404, "Product type not found"), "not_found")
         ELSE Set(r, [req[r] EXCEPT !.pc = "write", !.snap = types[req[r].id]])
    /\ UNCHANGED <<stockVars, types, peer, products, sizes, files, ctrVars, started, reported, deleted>>

\* "FOREIGN KEY constraint" in str(e) or "constraint failed" in str(e).lower()
IsFkText(msg) ==
    \/ Contains(msg, <<"FOREIGN", "KEY", "constraint">>)
    \/ Contains(LowerWords(msg), <<"constraint", "failed">>)

\* delete's `except Exception` branch, by the text of the exception
DeleteFailure(msg) ==
    IF IsFkText(msg)
    THEN Err(409, "Cannot delete product type: in use by products")
    ELSE Err(500, "Failed to delete from primary DB")

\* DELETE ...; rowcount test; commit.  The store refuses the DELETE while a
\* Products row references the type (the constraint the except branch names).
TypeDeleteWrite(r) ==
    /\ req[r].pc = "write" /\ req[r].op = "type_delete"
    /\ \E fault \in BOOLEAN :
         IF fault
         THEN FinishRolledBack(r, DeleteFailure(MsgGeneric), "db_error") /\ UNCHANGED <<types, deleted>>
         ELSE IF types[req[r].id] = NoRow
         THEN /\ Finish(r, Err(404, "Product type not found during delete execution"), "no_row")
              /\ UNCHANGED <<types, deleted>>
         ELSE IF Referenced(products, req[r].id)
         THEN /\ \E msg \in StoreFkMessages : FinishRolledBack(r, DeleteFailure(msg), "fk_violation")
              /\ UNCHANGED <<types, deleted>>
         ELSE /\ types' = [types EXCEPT ![req[r].id] = NoRow]
              /\ deleted' = deleted \cup {req[r].id}
              /\ Set(r, [req[r] EXCEPT !.pc = "sync", !.conn = "closed", !.committed = TRUE,
                                      !.local = TRUE])
    /\ UNCHANGED <<stockVars, peer, products, sizes, files, ctrVars, started, reported>>

\* ---------------------------------------------------------------- ProductType listing
\* position of a name under ORDER BY productTypeName (case-insensitive collation)
NameKey(n) == IF Lower(n) = "cake" THEN 1 ELSE 2

Present(tbl) == {i \in TypeIds : tbl[i] # NoRow}

RECURSIVE SortByName(_, _)
SortByName(tbl, ids) ==
    IF ids = {} THEN <<>>
    ELSE LET first == CHOOSE i \in ids : \A j \in ids :
                          \/ NameKey(tbl[i].name) < NameKey(tbl[j].name)
                          \/ NameKey(tbl[i].name) = NameKey(tbl[j].name) /\ i <= j
         IN <<[productTypeID |-> first, productTypeName |-> tbl[first].name,
               SizeRequired |-> tbl[first].sr]>> \o SortByName(tbl, ids \ {first})

\* get_product_types depends on oauth2_scheme only: no call to the identity service
BeginTypeList(r) ==
    \E tok \in Tokens :
        BeginRead(r, [IdleReq EXCEPT !.op = "type_list", !.pc = "scheme", !.token = tok])

TypeListSelect(r) ==
    /\ req[r].pc = "select" /\ req[r].op = "type_list"
    /\ \E fault \in BOOLEAN :
         IF fault
         THEN Finish(r, Err(500, "Internal Server Error"), "db_error")
         ELSE Set(r, [req[r] EXCEPT !.pc = "done", !.conn = "closed",
                                   !.listing = SortByName(types, Present(types)),
                                   !.resp = [status |-> 200, detail |-> "listing", sync |-> ""]])
    /\ UNCHANGED <<stockVars, types, peer, products, sizes, files, ctrVars, started, reported, deleted>>

\* ================================================================ products.py
ProductOps == {"product_create", "product_update", "product_delete", "size_add", "size_delete"}

ProductRow(n, t, c, img) == [name |-> n, typeId |-> t, cat |-> c, image |-> img]

\* db path of a stored file: f"{IMAGE_DB_PATH_PREFIX}/{unique_filename}"
DbPath(f) == <<"/product_images", f>>

\* Path(db_path).name
FileOfPath(path) == path[2]

\* the ProductSize form field / SizeName values the callers send
SizeInputs == {None, " ", " M ", "L"}

\* form bodies the callers send:
\* <<ProductName, ProductCategory, ProductTypeID, ProductSize, ProductImageFile>>
ProductBodies ==
    {<<"latte", "drinks", 1, " M ", "photo.png">>,
     <<"latte", "drinks", 2, " ",   None>>,
     <<"mocha", "drinks", 2, None,  "photo.png">>,
     <<"mocha", "drinks", 1, "L",   None>>,
     <<"mocha", "food",   1, None,  "notes.txt">>}

\* str.strip()
Trim(s) ==
    CASE s = " M " -> "M"
      [] s = " "   -> ""
      [] OTHER     -> s

\* `if ProductSize and ProductSize.strip()`
HasSize(s) == s # None /\ s # "" /\ Trim(s) # ""

\* uploads: none (None), an image with a supported suffix, a file that is no image
IsImageContent(f) == f = "photo.png"

\* allowed_roles of each endpoint
AllowedRoles(op) ==
    IF op = "size_delete" THEN {"admin", "manager"} ELSE {"admin", "manager", "staff"}

\* validate_token_and_roles: NoResp when the caller may proceed, else the error raised
ValidateTokenAndRoles(ans, allowed) ==
    CASE ans = "http401"     -> Err(401, "IS Auth service error")
      [] ans = "unreachable" -> Err(503, "IS Auth service unavailable")
      [] ans \notin allowed  -> Err(403, "Access denied.")
      [] OTHER               -> NoResp

ProductAuth(r) ==
    /\ req[r].pc = "auth" /\ req[r].op \in ProductOps
    /\ \E ans \in IdentityAnswers :
         IF ValidateTokenAndRoles(ans, AllowedRoles(req[r].op)) = NoResp
         THEN Set(r, [req[r] EXCEPT !.pc = "connect", !.ans = ans])
         ELSE Set(r, [req[r] EXCEPT !.pc = "done", !.ans = ans,
                                   !.resp = ValidateTokenAndRoles(ans, AllowedRoles(req[r].op))])
    /\ UNCHANGED <<stockVars, types, peer, products, sizes, files, ctrVars, started, reported, deleted>>

\* _get_product_type_details: NoRow (None), or the type's name and bool(SizeRequired)
GetProductTypeDetails(tbl, typeId) ==
    IF typeId \in TypeIds /\ tbl[typeId] # NoRow
    THEN [name |-> tbl[typeId].name, size_required |-> tbl[typeId].sr # 0]
    ELSE NoRow

SizesOf(tbl, pid) == {s \in tbl : s.pid = pid}

SizeNamesOf(tbl, pid) == {s.name : s \in SizesOf(tbl, pid)}

\* an exception that leaves a products.py handler: no except clause, the
\* `finally` closes the connection and the framework answers 500
Unhandled(r) == Finish(r, Err(500, "Internal Server Error"), "db_error")

\* ---------------------------------------------------------------- create product
BeginProductCreate(r) ==
    /\ nextProdId <= MaxProdId
    /\ \E b \in ProductBodies :
         /\ HasSize(b[4]) => nextSizeId <= MaxSizeId
         /\ b[5] # None => nextFile <= MaxFile
         /\ Begin(r, [IdleReq EXCEPT !.op = "product_create", !.pc = "auth", !.name = b[1],
                                     !.cat = b[2], !.typeId = b[3], !.size = b[4], !.file = b[5]])

ProductCreateCheckDup(r) ==
    /\ req[r].pc = "check" /\ req[r].op = "product_create"
    /\ \E fault \in BOOLEAN :
         IF fault THEN Unhandled(r)
         ELSE IF \E p \in ProdIds : products[p] # NoRow /\ products[p].name = req[r].name
                                    /\ products[p].cat = req[r].cat
         THEN Finish(r, Err(409, "Product already exists"), "duplicate")
         ELSE Set(r, [req[r] EXCEPT !.pc = "check_type"])
    /\ UNCHANGED <<stockVars, types, peer, products, sizes, files, ctrVars, started, reported, deleted>>

ProductCreateCheckType(r) ==
    /\ req[r].pc = "check_type" /\ req[r].op = "product_create"
    /\ \E fault \in BOOLEAN :
         IF fault THEN Unhandled(r)
         ELSE IF GetProductTypeDetails(types, req[r].typeId) = NoRow
         THEN Finish(r, Err(400, "ProductTypeID not found"), "no_type")
         ELSE Set(r, [req[r] EXCEPT !.pc = "image"])
    /\ UNCHANGED <<stockVars, types, peer, products, sizes, files, ctrVars, started, reported, deleted>>

\* content-type and suffix tests, then the upload is written under a fresh name
ProductCreateImage(r) ==
    /\ req[r].pc = "image" /\ req[r].op = "product_create"
    /\ IF req[r].file = None
       THEN Set(r, [req[r] EXCEPT !.pc = "write"]) /\ UNCHANGED <<files, nextFile>>
       ELSE IF ~IsImageContent(req[r].file)
       THEN /\ Finish(r, Err(400, "Uploaded file is not a valid image."), "bad_image")
            /\ UNCHANGED <<files, nextFile>>
       ELSE \E fault \in BOOLEAN :
              IF fault THEN Unhandled(r) /\ UNCHANGED <<files, nextFile>>
              ELSE /\ files' = files \cup {nextFile}
                   /\ nextFile' = nextFile + 1
                   /\ Set(r, [req[r] EXCEPT !.pc = "write", !.path = DbPath(nextFile),
                                           !.newFile = nextFile])
    /\ UNCHANGED <<stockVars, types, peer, products, sizes, nextTypeId, nextProdId, nextSizeId,
                   started, reported, deleted>>

\* INSERT INTO Products; optional INSERT INTO Size; commit
ProductCreateWrite(r) ==
    /\ req[r].pc = "write" /\ req[r].op = "product_create"
    /\ \E fault \in BOOLEAN :
         IF fault \/ GetProductTypeDetails(types, req[r].typeId) = NoRow
         THEN Unhandled(r) /\ UNCHANGED <<products, sizes, nextProdId, nextSizeId>>
         ELSE /\ products' = [products EXCEPT ![nextProdId] =
                                 ProductRow(req[r].name, req[r].typeId, req[r].cat, req[r].path)]
              /\ nextProdId' = nextProdId + 1
              /\ IF HasSize(req[r].size)
                 THEN /\ sizes' = sizes \cup {[id |-> nextSizeId, pid |-> nextProdId,
                                                name |-> Trim(req[r].size)]}
                      /\ nextSizeId' = nextSizeId + 1
                 ELSE UNCHANGED <<sizes, nextSizeId>>
              /\ Set(r, [req[r] EXCEPT !.pc = "done", !.conn = "closed", !.id = nextProdId,
                                      !.committed = TRUE,
                                      !.resp = [status |-> 201, detail |-> "product", sync |-> ""]])
    /\ UNCHANGED <<stockVars, types, peer, files, nextTypeId, nextFile, started, reported, deleted>>

\* ---------------------------------------------------------------- update product
BeginProductUpdate(r) ==
    \E p \in ProdIds, b \in ProductBodies :
         /\ HasSize(b[4]) => nextSizeId <= MaxSizeId
         /\ b[5] # None => nextFile <= MaxFile
         /\ Begin(r, [IdleReq EXCEPT !.op = "product_update", !.pc = "auth", !.id = p,
                                     !.name = b[1], !.cat = b[2], !.typeId = b[3],
                                     !.size = b[4], !.file = b[5]])

ProductUpdateCheckType(r) ==
    /\ req[r].pc = "check" /\ req[r].op = "product_update"
    /\ \E fault \in BOOLEAN :
         IF fault THEN Unhandled(r)
         ELSE IF GetProductTypeDetails(types, req[r].typeId) = NoRow
         THEN Finish(r, Err(400, "ProductTypeID not found"), "no_type")
         ELSE Set(r, [req[r] EXCEPT !.pc = "check_exists"])
    /\ UNCHANGED <<stockVars, types, peer, products, sizes, files, ctrVars, started, reported, deleted>>

\* SELECT ProductImage FROM Products WHERE ProductID = ?
ProductUpdateCheckExists(r) ==
    /\ req[r].pc = "check_exists" /\ req[r].op = "product_update"
    /\ \E fault \in BOOLEAN :
         IF fault THEN Unhandled(r)
         ELSE IF products[req[r].id] = NoRow
         THEN Finish(r, Err(404, "Product not found."), "not_found")
         ELSE Set(r, [req[r] EXCEPT !.pc = "image", !.img = products[req[r].id].image,
                                   !.path = products[req[r].id].image])
    /\ UNCHANGED <<stockVars, types, peer, products, sizes, files, ctrVars, started, reported, deleted>>

\* `if ProductImageFile:` write the upload under a fresh name, then remove the
\* file of current_product.ProductImage if it exists
ProductUpdateImage(r) ==
    /\ req[r].pc = "image" /\ req[r].op = "product_update"
    /\ IF req[r].file = None
       THEN Set(r, [req[r] EXCEPT !.pc = "write"]) /\ UNCHANGED <<files, nextFile>>
       ELSE \E fault \in BOOLEAN :
              IF fault THEN Unhandled(r) /\ UNCHANGED <<files, nextFile>>
              ELSE /\ files' = (files \cup {nextFile})
                                 \ (IF req[r].img # NoPath THEN {FileOfPath(req[r].img)} ELSE {})
                   /\ nextFile' = nextFile + 1
                   /\ Set(r, [req[r] EXCEPT !.pc = "write", !.path = DbPath(nextFile),
                                           !.newFile = nextFile])
    /\ UNCHANGED <<stockVars, types, peer, products, sizes, nextTypeId, nextProdId, nextSizeId,
                   started, reported, deleted>>

\* variant: the new size is inserted without the DELETE FROM Size before it
ProductUpdateWriteKeepsSizes(r) ==
    /\ req[r].pc = "write" /\ req[r].op = "product_update"
    /\ \E fault \in BOOLEAN :
         IF fault
         THEN Unhandled(r) /\ UNCHANGED <<products, sizes, nextSizeId>>
         ELSE /\ products' = [products EXCEPT ![req[r].id] =
                                 ProductRow(req[r].name, req[r].typeId, req[r].cat, req[r].path)]
              /\ IF HasSize(req[r].size)
                 THEN /\ sizes' = sizes \cup {[id |-> nextSizeId, pid |-> req[r].id,
                                               name |-> Trim(req[r].size)]}
                      /\ nextSizeId' = nextSizeId + 1
                 ELSE UNCHANGED <<sizes, nextSizeId>>
              /\ Set(r, [req[r] EXCEPT !.pc = "done", !.conn = "closed", !.committed = TRUE,
                                      !.before = SizeNamesOf(sizes, req[r].id),
                                      !.resp = [status |-> 200, detail |-> "product", sync |-> ""]])
    /\ UNCHANGED <<stockVars, types, peer, files, nextTypeId, nextProdId, nextFile, started, reported, deleted>>

\* UPDATE Products; DELETE FROM Size; optional INSERT INTO Size; commit
ProductUpdateWrite(r) ==
    /\ req[r].pc = "write" /\ req[r].op = "product_update"
    /\ \E fault \in BOOLEAN :
         IF fault
         THEN Unhandled(r) /\ UNCHANGED <<products, sizes, nextSizeId>>
         ELSE /\ products' = [products EXCEPT ![req[r].id] =
                                 ProductRow(req[r].name, req[r].typeId, req[r].cat, req[r].path)]
              /\ IF HasSize(req[r].size)
                 THEN /\ sizes' = (sizes \ SizesOf(sizes, req[r].id))
                                    \cup {[id |-> nextSizeId, pid |-> req[r].id,
                                           name |-> Trim(req[r].size)]}
                      /\ nextSizeId' = nextSizeId + 1
                 ELSE /\ sizes' = sizes \ SizesOf(sizes, req[r].id)
                      /\ UNCHANGED nextSizeId
              /\ Set(r, [req[r] EXCEPT !.pc = "done", !.conn = "closed", !.committed = TRUE,
                                      !.before = SizeNamesOf(sizes, req[r].id),
                                      !.resp = [status |-> 200, detail |-> "product", sync |-> ""]])
    /\ UNCHANGED <<stockVars, types, peer, files, nextTypeId, nextProdId, nextFile, started, reported, deleted>>

\* ---------------------------------------------------------------- delete product
BeginProductDelete(r) ==
    \E p \in ProdIds :
        Begin(r, [IdleReq EXCEPT !.op = "product_delete", !.pc = "auth", !.id = p])

ProductDeleteCheckExists(r) ==
    /\ req[r].pc = "check" /\ req[r].op = "product_delete"
    /\ \E fault \in BOOLEAN :
         IF fault THEN Unhandled(r)
         ELSE IF products[req[r].id] = NoRow
         THEN Finish(r, Err(404, "Product not found."), "not_found")
         ELSE Set(r, [req[r] EXCEPT !.pc = "write", !.img = products[req[r].id].image])
    /\ UNCHANGED <<stockVars, types, peer, products, sizes, files, ctrVars, started, reported, deleted>>

\* variant: the image file is removed before the rows are deleted and committed
ProductDeleteWriteFileFirst(r) ==
    /\ req[r].pc = "write" /\ req[r].op = "product_delete"
    /\ files' = files \ (IF req[r].img # NoPath THEN {FileOfPath(req[r].img)} ELSE {})
    /\ \E fault \in BOOLEAN :
         IF fault
         THEN Unhandled(r) /\ UNCHANGED <<products, sizes>>
         ELSE /\ sizes' = sizes \ SizesOf(sizes, req[r].id)
              /\ products' = [products EXCEPT ![req[r].id] = NoRow]
              /\ Set(r, [req[r] EXCEPT !.pc = "remove_file", !.committed = TRUE])
    /\ UNCHANGED <<stockVars, types, peer, ctrVars, started, reported, deleted>>

\* variant: the Products row is deleted without the DELETE FROM Size before it
ProductDeleteWriteKeepsSizes(r) ==
    /\ req[r].pc = "write" /\ req[r].op = "product_delete"
    /\ \E fault \in BOOLEAN :
         IF fault
         THEN Unhandled(r) /\ UNCHANGED <<products, sizes>>
         ELSE /\ sizes' = sizes
              /\ products' = [products EXCEPT ![req[r].id] = NoRow]
              /\ Set(r, [req[r] EXCEPT !.pc = "remove_file", !.committed = TRUE])
    /\ UNCHANGED <<stockVars, types, peer, files, ctrVars, started, reported, deleted>>

\* DELETE FROM Size; DELETE FROM Products; commit
ProductDeleteWrite(r) ==
    /\ req[r].pc = "write" /\ req[r].op = "product_delete"
    /\ \E fault \in BOOLEAN :
         IF fault
         THEN Unhandled(r) /\ UNCHANGED <<products, sizes>>
         ELSE /\ sizes' = sizes \ SizesOf(sizes, req[r].id)
              /\ products' = [products EXCEPT ![req[r].id] = NoRow]
              /\ Set(r, [req[r] EXCEPT !.pc = "remove_file", !.committed = TRUE])
    /\ UNCHANGED <<stockVars, types, peer, files, ctrVars, started, reported, deleted>>

\* `if product_row.ProductImage:` remove the physical file if it exists
ProductDeleteRemoveFile(r) ==
    /\ req[r].pc = "remove_file" /\ req[r].op = "product_delete"
    /\ \E fault \in BOOLEAN :
         IF fault /\ req[r].img # NoPath /\ FileOfPath(req[r].img) \in files
         THEN Finish(r, Err(500, "Internal Server Error"), "file_error") /\ UNCHANGED files
         ELSE /\ files' = files \ (IF req[r].img # NoPath THEN {FileOfPath(req[r].img)} ELSE {})
              /\ Finish(r, [status |-> 200, detail |-> "deleted", sync |-> ""], "")
    /\ UNCHANGED <<stockVars, types, peer, products, sizes, ctrVars, started, reported, deleted>>

\* ---------------------------------------------------------------- add size
BeginSizeAdd(r) ==
    /\ nextSizeId <= MaxSizeId
    /\ \E p \in ProdIds, sz \in SizeInputs \ {None} :
        Begin(r, [IdleReq EXCEPT !.op = "size_add", !.pc = "auth", !.id = p, !.size = sz])

\* type_details = await _get_product_type_details(conn, product_id)
SizeAddTypeDetails(tbl, product_id) == GetProductTypeDetails(tbl, product_id)

SizeAddCheckType(r) ==
    /\ req[r].pc = "check" /\ req[r].op = "size_add"
    /\ \E fault \in BOOLEAN :
         IF fault THEN Unhandled(r)
         ELSE LET type_details == SizeAddTypeDetails(types, req[r].id) IN
              IF type_details = NoRow \/ ~type_details.size_required
              THEN Finish(r, Err(400, "This product's type does not require sizes."), "no_sizes")
              ELSE Set(r, [req[r] EXCEPT !.pc = "check_dup"])
    /\ UNCHANGED <<stockVars, types, peer, products, sizes, files, ctrVars, started, reported, deleted>>

\* variant: the write follows without the SELECT for an existing (ProductID, SizeName)
SizeAddCheckDupNoSelect(r) ==
    /\ req[r].pc = "check_dup" /\ req[r].op = "size_add"
    /\ IF Trim(req[r].size) = ""
       THEN Finish(r, Err(400, "SizeName cannot be empty."), "empty_name")
       ELSE \E fault \in BOOLEAN :
              IF fault THEN Unhandled(r)
              ELSE Set(r, [req[r] EXCEPT !.pc = "write"])
    /\ UNCHANGED <<stockVars, types, peer, products, sizes, files, ctrVars, started, reported, deleted>>

SizeAddCheckDup(r) ==
    /\ req[r].pc = "check_dup" /\ req[r].op = "size_add"
    /\ IF Trim(req[r].size) = ""
       THEN Finish(r, Err(400, "SizeName cannot be empty."), "empty_name")
       ELSE \E fault \in BOOLEAN :
              IF fault THEN Unhandled(r)
              ELSE IF Trim(req[r].size) \in SizeNamesOf(sizes, req[r].id)
              THEN Finish(r, Err(409, "Size already exists for this product."), "duplicate")
              ELSE Set(r, [req[r] EXCEPT !.pc = "write"])
    /\ UNCHANGED <<stockVars, types, peer, products, sizes, files, ctrVars, started, reported, deleted>>

\* Size.ProductID references Products: the store refuses a row for a missing product
SizeFkHolds(prods, pid) == pid \in ProdIds /\ prods[pid] # NoRow

\* INSERT INTO Size ... OUTPUT INSERTED.SizeID; commit
SizeAddWrite(r) ==
    /\ req[r].pc = "write" /\ req[r].op = "size_add"
    /\ \E fault \in BOOLEAN :
         IF fault \/ ~SizeFkHolds(products, req[r].id)
         THEN Unhandled(r) /\ UNCHANGED <<sizes, nextSizeId>>
         ELSE /\ sizes' = sizes \cup {[id |-> nextSizeId, pid |-> req[r].id,
                                       name |-> Trim(req[r].size)]}
              /\ nextSizeId' = nextSizeId + 1
              /\ Set(r, [req[r] EXCEPT !.pc = "done", !.conn = "closed", !.committed = TRUE,
                                      !.resp = [status |-> 201, detail |-> "size", sync |-> ""]])
    /\ UNCHANGED <<stockVars, types, peer, products, files, nextTypeId, nextProdId, nextFile,
                   started, reported, deleted>>

\* ---------------------------------------------------------------- delete size
BeginSizeDelete(r) ==
    \E p \in ProdIds, sid \in SizeIds :
        Begin(r, [IdleReq EXCEPT !.op = "size_delete", !.pc = "auth", !.id = p, !.typeId = sid])

\* DELETE FROM Size WHERE SizeID = ? AND ProductID = ?; rowcount test; commit
SizeDeleteWrite(r) ==
    /\ req[r].pc = "check" /\ req[r].op = "size_delete"
    /\ \E fault \in BOOLEAN :
         IF fault THEN Unhandled(r) /\ UNCHANGED sizes
         ELSE LET hit == {s \in sizes : s.id = req[r].typeId /\ s.pid = req[r].id} IN
              IF hit = {}
              THEN Finish(r, Err(404, "Size ID not found for product ID"), "not_found")
                   /\ UNCHANGED sizes
              ELSE /\ sizes' = sizes \ hit
                   /\ Set(r, [req[r] EXCEPT !.pc = "done", !.conn = "closed", !.committed = TRUE,
                                           !.resp = [status |-> 200, detail |-> "size deleted",
                                                     sync |-> ""]])
    /\ UNCHANGED <<stockVars, types, peer, products, files, ctrVars, started, reported, deleted>>

\* ---------------------------------------------------------------- stock tables
Statuses == {"Available", "Not Available"}

\* the recipe and inventory services write the tables this service joins
StockWrite ==
    /\ edits < MaxEdits
    /\ edits' = edits + 1
    /\ \/ \E rc \in RecipeIds, p \in ProdIds :
            /\ \A x \in recipes : x.id # rc
            /\ recipes' = recipes \cup {[id |-> rc, pid |-> p]}
            /\ UNCHANGED <<recipeIngredients, recipeMaterials, ingredients, materials>>
       \/ \E x \in recipes :
            /\ recipes' = recipes \ {x}
            /\ recipeIngredients' = {y \in recipeIngredients : y.rid # x.id}
            /\ recipeMaterials' = {y \in recipeMaterials : y.rid # x.id}
            /\ UNCHANGED <<ingredients, materials>>
       \/ \E x \in recipes, i \in IngredientIds :
            /\ recipeIngredients' =
                 IF [rid |-> x.id, iid |-> i] \in recipeIngredients
                 THEN recipeIngredients \ {[rid |-> x.id, iid |-> i]}
                 ELSE recipeIngredients \cup {[rid |-> x.id, iid |-> i]}
            /\ UNCHANGED <<recipes, recipeMaterials, ingredients, materials>>
       \/ \E x \in recipes, m \in MaterialIds :
            /\ recipeMaterials' =
                 IF [rid |-> x.id, mid |-> m] \in recipeMaterials
                 THEN recipeMaterials \ {[rid |-> x.id, mid |-> m]}
                 ELSE recipeMaterials \cup {[rid |-> x.id, mid |-> m]}
            /\ UNCHANGED <<recipes, recipeIngredients, ingredients, materials>>
       \/ \E i \in IngredientIds, st \in Statuses :
            /\ st # ingredients[i]
            /\ ingredients' = [ingredients EXCEPT ![i] = st]
            /\ UNCHANGED <<recipes, recipeIngredients, recipeMaterials, materials>>
       \/ \E m \in MaterialIds, st \in Statuses :
            /\ st # materials[m]
            /\ materials' = [materials EXCEPT ![m] = st]
            /\ UNCHANGED <<recipes, recipeIngredients, recipeMaterials, ingredients>>
    /\ UNCHANGED <<types, peer, products, sizes, files, ctrVars, req, started, reported, deleted>>

\* ---------------------------------------------------------------- product details
\* FROM Products p JOIN ProductType pt ON p.ProductTypeID = pt.ProductTypeID
JoinedProducts ==
    {p \in ProdIds : /\ products[p] # NoRow
                     /\ products[p].typeId \in TypeIds
                     /\ types[products[p].typeId] # NoRow}

\* position of a name under ORDER BY p.ProductName
ProductNameKey(n) == IF n = "latte" THEN 1 ELSE 2

\* the CASE ... END AS Status column of get_all_full_product_details
StatusInListing(pid) ==
    IF \/ \E r_ing \in recipes, ri \in recipeIngredients, i \in IngredientIds :
            /\ r_ing.id = ri.rid /\ ri.iid = i
            /\ r_ing.pid = pid /\ ingredients[i] # "Available"
       \/ \E r_mat \in recipes, rm \in recipeMaterials, m \in MaterialIds :
            /\ r_mat.id = rm.rid /\ rm.mid = m
            /\ r_mat.pid = pid /\ materials[m] # "Available"
    THEN "Unavailable"
    ELSE "Available"

\* variant: the single-product query without the materials branch
StatusOfOneIngredientsOnly(pid) ==
    IF \E r_ing \in recipes, ri \in recipeIngredients, i \in IngredientIds :
            /\ r_ing.id = ri.rid /\ ri.iid = i
            /\ r_ing.pid = pid /\ ingredients[i] # "Available"
    THEN "Unavailable"
    ELSE "Available"

\* the CASE ... END AS Status column of get_full_product_details
StatusOfOne(pid) ==
    IF \/ \E r_ing \in recipes, ri \in recipeIngredients, i \in IngredientIds :
            /\ r_ing.id = ri.rid /\ ri.iid = i
            /\ r_ing.pid = pid /\ ingredients[i] # "Available"
       \/ \E r_mat \in recipes, rm \in recipeMaterials, m \in MaterialIds :
            /\ r_mat.id = rm.rid /\ rm.mid = m
            /\ r_mat.pid = pid /\ materials[m] # "Available"
    THEN "Unavailable"
    ELSE "Available"

\* a fetched row (ProductID is a column of the row, not of the response model)
DetailRow(pid, st) ==
    [ProductID |-> pid, ProductName |-> products[pid].name,
     ProductCategory |-> products[pid].cat,
     ProductTypeName |-> types[products[pid].typeId].name,
     Sizes |-> {}, Status |-> st]

RECURSIVE DetailRows(_)
DetailRows(ids) ==
    IF ids = {} THEN <<>>
    ELSE LET first == CHOOSE i \in ids : \A j \in ids :
                          \/ ProductNameKey(products[i].name) < ProductNameKey(products[j].name)
                          \/ /\ ProductNameKey(products[i].name) = ProductNameKey(products[j].name)
                             /\ i <= j
         IN <<DetailRow(first, StatusInListing(first))>> \o DetailRows(ids \ {first})

\* sizes_by_product_id.get(ProductID) / `product_sizes or None`: {} stands for None
WithSizes(rows) ==
    [k \in 1..Len(rows) |-> [rows[k] EXCEPT !.Sizes = SizeNamesOf(sizes, rows[k].ProductID)]]

ReadUnchanged ==
    UNCHANGED <<stockVars, types, peer, products, sizes, files, ctrVars, started,
                reported, deleted>>

BeginDetailsAll(r) ==
    \E tok \in Tokens :
        BeginRead(r, [IdleReq EXCEPT !.op = "details_all", !.pc = "scheme", !.token = tok])

\* the products query of GET /products/details/
DetailsAllSelect(r) ==
    /\ req[r].pc = "select" /\ req[r].op = "details_all"
    /\ \E fault \in BOOLEAN :
         IF fault THEN Finish(r, DetailsFailure, "db_error")
         ELSE Set(r, [req[r] EXCEPT !.pc = "select_sizes",
                                   !.listing = DetailRows(JoinedProducts)])
    /\ ReadUnchanged

\* SELECT ProductID, SizeName FROM Size, then the response list
DetailsAllSizes(r) ==
    /\ req[r].pc = "select_sizes" /\ req[r].op = "details_all"
    /\ \E fault \in BOOLEAN :
         IF fault THEN Finish(r, DetailsFailure, "db_error")
         ELSE Set(r, [req[r] EXCEPT !.pc = "done", !.conn = "closed",
                                   !.listing = WithSizes(req[r].listing),
                                   !.resp = [status |-> 200, detail |-> "details", sync |-> ""]])
    /\ ReadUnchanged

BeginDetailsOne(r) ==
    \E tok \in Tokens, p \in ProdIds :
        BeginRead(r, [IdleReq EXCEPT !.op = "details_one", !.pc = "scheme", !.token = tok,
                                     !.id = p])

\* the product query of GET /products/{product_id}/details; the 404 raised for
\* a missing row is caught by the handler's own `except Exception`
DetailsOneSelect(r) ==
    /\ req[r].pc = "select" /\ req[r].op = "details_one"
    /\ \E fault \in BOOLEAN :
         IF fault THEN Finish(r, DetailsFailure, "db_error")
         ELSE IF req[r].id \notin JoinedProducts
         THEN Finish(r, DetailsFailure, "not_found")
         ELSE Set(r, [req[r] EXCEPT !.pc = "select_sizes",
                                   !.listing = <<DetailRow(req[r].id, StatusOfOne(req[r].id))>>])
    /\ ReadUnchanged

\* SELECT SizeName FROM Size WHERE ProductID = ?, then the response
DetailsOneSizes(r) ==
    /\ req[r].pc = "select_sizes" /\ req[r].op = "details_one"
    /\ \E fault \in BOOLEAN :
         IF fault THEN Finish(r, DetailsFailure, "db_error")
         ELSE Set(r, [req[r] EXCEPT !.pc = "done", !.conn = "closed",
                                   !.listing = WithSizes(req[r].listing),
                                   !.resp = [status |-> 200, detail |-> "details", sync |-> ""]])
    /\ ReadUnchanged

\* ---------------------------------------------------------------- product listing
BeginProductList(r) ==
    \E tok \in Tokens :
        BeginRead(r, [IdleReq EXCEPT !.op = "product_list", !.pc = "scheme", !.token = tok])

RECURSIVE ProductRows(_)
ProductRows(ids) ==
    IF ids = {} THEN <<>>
    ELSE LET first == CHOOSE i \in ids : \A j \in ids :
                          \/ ProductNameKey(products[i].name) < ProductNameKey(products[j].name)
                          \/ /\ ProductNameKey(products[i].name) = ProductNameKey(products[j].name)
                             /\ i <= j
         IN <<[ProductID |-> first, ProductName |-> products[first].name,
               ProductCategory |-> products[first].cat,
               ProductTypeName |-> types[products[first].typeId].name,
               Sizes |-> {}, Status |-> ""]>> \o ProductRows(ids \ {first})

\* the products query of GET /is_products/products/; `if not product_rows: return []`
ProductListSelect(r) ==
    /\ req[r].pc = "select" /\ req[r].op = "product_list"
    /\ \E fault \in BOOLEAN :
         IF fault THEN Unhandled(r)
         ELSE IF JoinedProducts = {}
         THEN Finish(r, [status |-> 200, detail |-> "products", sync |-> ""], "")
         ELSE Set(r, [req[r] EXCEPT !.pc = "select_sizes",
                                   !.listing = ProductRows(JoinedProducts)])
    /\ ReadUnchanged

\* SELECT ProductID, SizeName FROM Size WHERE ProductID IN (...), then the list
ProductListSizes(r) ==
    /\ req[r].pc = "select_sizes" /\ req[r].op = "product_list"
    /\ \E fault \in BOOLEAN :
         IF fault THEN Unhandled(r)
         ELSE Set(r, [req[r] EXCEPT !.pc = "done", !.conn = "closed",
                                   !.listing = WithSizes(req[r].listing),
                                   !.resp = [status |-> 200, detail |-> "products", sync |-> ""]])
    /\ ReadUnchanged

\* ---------------------------------------------------------------- initial states
NoTypes    == [i \in TypeIds |-> NoRow]
NoProducts == [p \in ProdIds |-> NoRow]

SeedTypes    == [NoTypes EXCEPT ![1] = TypeRow("tea", 1), ![2] = TypeRow("cake", 0)]
SeedProducts == [NoProducts EXCEPT ![1] = ProductRow("latte", 2, "drinks", DbPath(1))]

\* no request yet
Quiet ==
    /\ req = [r \in Slots |-> IdleReq]
    /\ started = 0
    /\ reported = {}
    /\ deleted = {}

\* product 1 has one recipe with one ingredient, everything in stock
SeedStock ==
    /\ recipes = {[id |-> 1, pid |-> 1]}
    /\ recipeIngredients = {[rid |-> 1, iid |-> 1]}
    /\ recipeMaterials = {}
    /\ ingredients = [i \in IngredientIds |-> "Available"]
    /\ materials = [m \in MaterialIds |-> "Available"]
    /\ edits = 0

Init ==
    /\ \/ /\ types = NoTypes /\ nextTypeId = 1
          /\ products = NoProducts /\ nextProdId = 1
          /\ sizes = {} /\ nextSizeId = 1
          /\ files = {} /\ nextFile = 1
       \/ /\ types = SeedTypes /\ nextTypeId = 3
          /\ products = SeedProducts /\ nextProdId = 2
          /\ sizes = {[id |-> 1, pid |-> 1, name |-> "M"]} /\ nextSizeId = 2
          /\ files = {1} /\ nextFile = 2
    /\ peer = types
    /\ Quiet
    /\ SeedStock

\* a catalog with two products, for the read endpoints
InitReads ==
    /\ types = SeedTypes /\ nextTypeId = 3
    /\ products = [SeedProducts EXCEPT ![2] = ProductRow("mocha", 1, "drinks", NoPath)]
    /\ nextProdId = 3
    /\ sizes = {[id |-> 1, pid |-> 1, name |-> "M"]} /\ nextSizeId = 2
    /\ files = {1} /\ nextFile = 2
    /\ peer = types
    /\ Quiet
    /\ SeedStock

TypeStep(r) ==
    \/ BeginTypeCreate(r) \/ BeginTypeUpdate(r) \/ BeginTypeDelete(r)
    \/ TypeAuth(r) \/ Connect(r)
    \/ TypeCreateCheck(r) \/ TypeCreateInsert(r)
    \/ TypeUpdateCheckExists(r) \/ TypeUpdateCheckName(r) \/ TypeUpdateWrite(r)
    \/ TypeDeleteCheckExists(r) \/ TypeDeleteWrite(r)
    \/ TypeSync(r)

\* concurrent ProductType requests
NextTypes == \E r \in Slots : TypeStep(r)

SpecTypes == Init /\ [][NextTypes]_vars

ProductStep(r) ==
    \/ BeginProductCreate(r) \/ BeginProductUpdate(r) \/ BeginProductDelete(r)
    \/ BeginSizeAdd(r) \/ BeginSizeDelete(r)
    \/ ProductAuth(r)
    \/ ProductCreateCheckDup(r) \/ ProductCreateCheckType(r) \/ ProductCreateImage(r)
    \/ ProductCreateWrite(r)
    \/ ProductUpdateCheckType(r) \/ ProductUpdateCheckExists(r) \/ ProductUpdateImage(r)
    \/ ProductUpdateWrite(r)
    \/ ProductDeleteCheckExists(r) \/ ProductDeleteWrite(r) \/ ProductDeleteRemoveFile(r)
    \/ SizeAddCheckType(r) \/ SizeAddCheckDup(r) \/ SizeAddWrite(r)
    \/ SizeDeleteWrite(r)

\* requests served one after another, every endpoint
Next ==
    \/ TypeStep(1) \/ BeginTypeList(1) \/ ReadScheme(1) \/ TypeListSelect(1)
    \/ ProductStep(1)

Spec == Init /\ [][Next]_vars

ReadStep(r) ==
    \/ BeginTypeList(r) \/ BeginDetailsAll(r) \/ BeginDetailsOne(r) \/ BeginProductList(r)
    \/ ReadScheme(r) \/ Connect(r)
    \/ TypeListSelect(r)
    \/ DetailsAllSelect(r) \/ DetailsAllSizes(r)
    \/ DetailsOneSelect(r) \/ DetailsOneSizes(r)
    \/ ProductListSelect(r) \/ ProductListSizes(r)

\* the read endpoints, one request at a time, while the stock tables change
NextReads == StockWrite \/ ReadStep(1)

SpecReads == InitReads /\ [][NextReads]_vars

\* ================================================================ claims
SyncedOps == {"type_update", "type_delete"}

\* C1: when an update or delete of a ProductType has committed locally, the
\* step that makes the peer call ends the request with status 200 whatever the
\* call's outcome; a failed call puts a sync-failure text in the reply, leaves
\* the peer copy as it was, and the local table is not touched (no rollback).
C1_SyncFailureStillSuccess ==
    [][\A r \in Slots :
          (req[r].pc = "sync" /\ req[r].committed /\ req'[r].pc = "done")
          => /\ req'[r].resp.status = 200
             /\ types' = types
             /\ req'[r].outcome # "ok"
                  => req'[r].resp.sync \in SyncFailureTexts /\ peer' = peer]_vars

C1_Witness ==
    \E r \in Slots :
        /\ req[r].pc = "done" /\ req[r].op = "type_update" /\ req[r].committed
        /\ req[r].outcome = "request_error"
        /\ req[r].resp.status = 200 /\ req[r].resp.sync = "request_error"
        /\ types[req[r].id] = TypeRow(req[r].name, req[r].sr)
        /\ peer[req[r].id] # types[req[r].id]

\* C2: a request has made its peer call only if its own local transaction
\* committed before, and an update or delete that ended with an error has
\* made no peer call.
C2_PeerCallAfterCommit ==
    \A r \in Slots :
        /\ req[r].called => req[r].committed
        /\ (req[r].pc = "done" /\ req[r].op \in SyncedOps /\ req[r].resp.status # 200)
             => ~req[r].called

C2_Witness ==
    \E r, q \in Slots :
        /\ req[r].op = "type_delete" /\ req[r].called /\ req[r].committed
        /\ req[q].op = "type_update" /\ req[q].pc = "done" /\ req[q].resp.status = 404
        /\ ~req[q].called

\* C3: once every request has completed, a ProductType id whose local row
\* differs from the peer's copy has had a sync failure reported in a response.
C3_DivergenceReported ==
    (\A r \in Slots : ~Busy(r))
    => \A i \in TypeIds : types[i] # peer[i] => i \in reported

\* the replies the specification files under Validation/Conflict: the handlers
\* raise 400 for a taken ProductType name and 409 for the other conflicts
ClientConflict(reply) == reply.status \in {400, 409}

Ended(r, op) == req[r].pc = "done" /\ req[r].op = op

\* C4: a create whose name is taken (ignoring case) by an existing ProductType
\* is answered with a conflict error, not a server error, and inserts no row.
C4_DuplicateCreateIsConflict ==
    \A r \in Slots :
        (Ended(r, "type_create") /\ req[r].cause = "name_taken")
        => ClientConflict(req[r].resp) /\ ~req[r].committed

C6_DeleteGuardsReferences ==
    /\ \A r \in Slots :
          (Ended(r, "type_delete") /\ req[r].cause = "fk_violation")
          => req[r].resp.status = 409 /\ types[req[r].id] # NoRow
    /\ \A r \in Slots :
          (Ended(r, "type_delete") /\ req[r].snap # NoRow /\ req[r].cause # "db_error"
             /\ ~Referenced(products, req[r].id))
          => req[r].resp.status = 200 /\ types[req[r].id] = NoRow
    /\ \A r \in Slots :
          (Ended(r, "type_list") /\ req[r].resp.status = 200)
          => \A k \in 1..Len(req[r].listing) : req[r].listing[k].productTypeID \notin deleted
    /\ \A p \in ProdIds :
          products[p] # NoRow
          => products[p].typeId \in TypeIds /\ types[products[p].typeId] # NoRow

\* C7: a Size add for an existing product P (caller authorised) is answered
\* 201 only if the ProductType P.typeId has sizeRequired, and is answered 400
\* with no row inserted when that type has sizeRequired false.
C7_SizeAddNeedsSizeRequired ==
    \A r \in Slots :
        (Ended(r, "size_add") /\ req[r].conn = "closed" /\ products[req[r].id] # NoRow)
        => LET t == GetProductTypeDetails(types, products[req[r].id].typeId) IN
           /\ req[r].resp.status = 201 => (t # NoRow /\ t.size_required)
           /\ (t # NoRow /\ ~t.size_required /\ req[r].cause # "db_error")
                => req[r].resp.status = 400 /\ ~req[r].committed

\* the size set the ProductSize field asks for
ExpectedSizes(field) ==
    IF field = None \/ Trim(field) = "" THEN {} ELSE {Trim(field)}

\* C8: after a Product update answered 200 the product's Size rows are exactly
\* the trimmed ProductSize value, or none when the field is absent, empty or
\* blank, whatever sizes the product had before.
C8_UpdateReplacesSizes ==
    \A r \in Slots :
        (Ended(r, "product_update") /\ req[r].resp.status = 200)
        => /\ SizeNamesOf(sizes, req[r].id) = ExpectedSizes(req[r].size)
           /\ Cardinality(SizesOf(sizes, req[r].id)) <= 1

C8_Witness ==
    \E r \in Slots :
        /\ Ended(r, "product_update") /\ req[r].resp.status = 200
        /\ Cardinality(req[r].before) = 2
        /\ req[r].size = " M "
        /\ SizeNamesOf(sizes, req[r].id) = {"M"}

\* C9: the step of a Product delete that commits removes the Product row and
\* all its Size rows together and touches no file; the image file is removed
\* only by a step taken after the commit; while the delete has not committed
\* its steps change neither the files nor the rows.
C9_DeleteThenRemoveFile ==
    [][\A r \in Slots :
          (req[r].op = "product_delete" /\ Busy(r))
          => /\ (~req[r].committed /\ req'[r].committed)
                  => /\ products'[req[r].id] = NoRow
                     /\ SizesOf(sizes', req[r].id) = {}
                     /\ files' = files
             /\ files' # files => req[r].committed
             /\ ~req'[r].committed
                  => files' = files /\ products' = products /\ sizes' = sizes]_vars

C9_Witness ==
    \E r \in Slots :
        /\ Ended(r, "product_delete") /\ req[r].resp.status = 200 /\ req[r].committed
        /\ req[r].img # NoPath /\ FileOfPath(req[r].img) \notin files
        /\ products[req[r].id] = NoRow /\ SizesOf(sizes, req[r].id) = {}

\* C10: when no request is in progress, every Product row with an image path
\* references a file that exists in the image store.
C10_ImagePathsExist ==
    (\A r \in Slots : ~Busy(r))
    => \A p \in ProdIds :
          (products[p] # NoRow /\ products[p].image # NoPath)
          => FileOfPath(products[p].image) \in files

\* C11: no two distinct Product rows have the same name and the same category.
C11_ProductKeysUnique ==
    \A p, q \in ProdIds :
        (p # q /\ products[p] # NoRow /\ products[q] # NoRow)
        => ~(products[p].name = products[q].name /\ products[p].cat = products[q].cat)

\* C12 as stated: no product has more than one Size row.
C12_OneSizePerProduct ==
    \A p \in ProdIds : Cardinality(SizesOf(sizes, p)) <= 1

\* C12: a Product create answered 201 and a Product update answered 200 leave
\* the product with at most one Size row, and no product has two Size rows of
\* the same name; Size add may give a product further rows of other names.
C12_WritePathSizes ==
    /\ \A r \in Slots :
          \/ Ended(r, "product_create") /\ req[r].resp.status = 201
          \/ Ended(r, "product_update") /\ req[r].resp.status = 200
          => Cardinality(SizesOf(sizes, req[r].id)) <= 1
    /\ \A s, t \in sizes : (s.pid = t.pid /\ s.name = t.name) => s.id = t.id

C12_Witness ==
    \E r \in Slots :
        /\ Ended(r, "size_add") /\ req[r].resp.status = 201
        /\ SizeNamesOf(sizes, req[r].id) = {"M", "L"}
        /\ Cardinality(SizesOf(sizes, req[r].id)) = 2

\* C13: no two ProductType rows have names that are equal ignoring case.
C13_TypeNamesUniqueCI ==
    \A i, j \in TypeIds :
        (i # j /\ types[i] # NoRow /\ types[j] # NoRow)
        => ~SameNameCI(types[i].name, types[j].name)

\* the ingredients / materials linked to a product through its recipes
LinkedIngredients(pid) ==
    {x.iid : x \in {y \in recipeIngredients : \E rc \in recipes : rc.id = y.rid /\ rc.pid = pid}}

LinkedMaterials(pid) ==
    {x.mid : x \in {y \in recipeMaterials : \E rc \in recipes : rc.id = y.rid /\ rc.pid = pid}}

StockShort(pid) ==
    \/ \E i \in LinkedIngredients(pid) : ingredients[i] # "Available"
    \/ \E m \in LinkedMaterials(pid) : materials[m] # "Available"

DetailsOps == {"details_all", "details_one"}

\* C14: the Status that the bulk and the single-product details query fetch
\* for a product is "Unavailable" exactly when an ingredient or material linked
\* to it through a recipe has a status other than "Available" (so both report
\* the same Status for the same tables), and the response carries that Status.
C14_StatusFromStock ==
    [][\A r \in Slots :
          /\ (req[r].op \in DetailsOps /\ req[r].pc = "select" /\ req'[r].pc = "select_sizes")
             => \A k \in 1..Len(req'[r].listing) :
                   req'[r].listing[k].Status =
                      IF StockShort(req'[r].listing[k].ProductID)
                      THEN "Unavailable" ELSE "Available"
          /\ (req[r].op \in DetailsOps /\ req[r].pc = "select_sizes"
                /\ req'[r].resp.status = 200)
             => /\ Len(req'[r].listing) = Len(req[r].listing)
                /\ \A k \in 1..Len(req[r].listing) :
                      req'[r].listing[k].Status = req[r].listing[k].Status]_vars

C14_Witness ==
    \E r \in Slots :
        /\ Ended(r, "details_one") /\ req[r].resp.status = 200
        /\ req[r].listing[1].Status = "Unavailable"
        /\ \A i \in LinkedIngredients(req[r].id) : ingredients[i] = "Available"
        /\ \E m \in LinkedMaterials(req[r].id) : materials[m] = "Not Available"

ReadOps == {"type_list", "details_all", "details_one", "product_list"}

\* C15: a read request answered 200 carried a token that the identity service
\* accepts.
C15_ReadsNeedValidToken ==
    \A r \in Slots :
        (req[r].pc = "done" /\ req[r].op \in ReadOps /\ req[r].resp.status = 200)
        => req[r].token = "valid"

MutatingOps == {"type_create", "type_update", "type_delete"} \cup ProductOps

\* the role rule of each gated endpoint
Authorised(op, ans) ==
    IF op \in ProductOps THEN ans \in AllowedRoles(op) ELSE ans = "manager"

AuthErrorStatus(ans) ==
    CASE ans = "http401"     -> 401
      [] ans = "unreachable" -> 503
      [] OTHER               -> 403

\* C16: a mutating request has a database connection, a committed write or a
\* peer call only if the identity service answered with a role its endpoint
\* allows; the identity step changes no table, file or peer row, and when the
\* answer is an HTTP error, no answer, or another role the request ends at
\* that step with 401, 503 or 403 and without a connection.
C16_IdentityCheckFirst ==
    [][\A r \in Slots :
          /\ (req'[r].op \in MutatingOps
                /\ (req'[r].conn # "none" \/ req'[r].committed \/ req'[r].called))
             => Authorised(req'[r].op, req'[r].ans)
          /\ (req[r].op \in MutatingOps /\ req[r].pc = "auth")
             => /\ types' = types /\ products' = products /\ sizes' = sizes
                /\ files' = files /\ peer' = peer
                /\ ~Authorised(req[r].op, req'[r].ans)
                     => /\ req'[r].pc = "done" /\ req'[r].conn = "none"
                        /\ req'[r].resp.status = AuthErrorStatus(req'[r].ans)]_vars

C16_Witness ==
    \E r \in Slots :
        /\ Ended(r, "type_delete") /\ req[r].ans = "staff"
        /\ req[r].resp.status = 403 /\ req[r].conn = "none"
        /\ types[req[r].id] # NoRow /\ peer[req[r].id] # NoRow

\* C17: a step of a Product update removes a file from the image store only
\* when the update's UPDATE has been committed.
C17_OldImageRemovedAfterUpdate ==
    [][\A r \in Slots :
          (req[r].op = "product_update" /\ Busy(r) /\ files \ files' # {})
          => req[r].committed]_vars

\* C18: a mutating request that ran statements on its connection and ended
\* with an error before its commit has issued a rollback.
C18_ErrorsRollBack ==
    \A r \in Slots :
        (/\ req[r].pc = "done" /\ req[r].op \in MutatingOps /\ req[r].conn = "closed"
         /\ req[r].outcome # "no_cursor"
         /\ req[r].resp.status >= 400 /\ ~req[r].committed)
        => (req[r].rolledBack \/ req[r].rbFailed)

\* C19: a ProductType create, update or delete whose rollback threw answers
\* with the error built from the original failure.
C19_RollbackFailureKeepsError ==
    \A r \in Slots :
        (req[r].pc = "done" /\ req[r].op \in TypeOps /\ req[r].rbFailed)
        => req[r].resp = req[r].raised

\* C20: a request that has ended holds no open database connection.
C20_ConnectionsReleased ==
    \A r \in Slots : req[r].pc = "done" => req[r].conn # "open"

\* C21: when an update or delete of ProductType X has passed its existence
\* check and X is gone by the time its UPDATE / DELETE runs, the step that
\* runs the statement ends the request with 404 (or with the 500 of a database
\* error), commits nothing, changes no row of either copy and makes no peer
\* call; the request never reaches the sync step.
C21_LostRaceIsNotFound ==
    [][\A r \in Slots :
          (/\ req[r].op \in SyncedOps /\ req[r].pc = "write"
           /\ types[req[r].id] = NoRow /\ req'[r] # req[r])
          => /\ req'[r].pc = "done"
             /\ req'[r].cause = "db_error" \/ req'[r].resp.status = 404
             /\ req'[r].resp.status # 200
             /\ ~req'[r].committed /\ ~req'[r].local /\ ~req'[r].called
             /\ types' = types /\ peer' = peer]_vars

C21_Witness ==
    \E r, q \in Slots :
        /\ r # q
        /\ Ended(r, "type_update") /\ req[r].cause = "no_row" /\ req[r].resp.status = 404
        /\ req[r].snap # NoRow /\ ~req[r].committed /\ ~req[r].called
        /\ req[q].op = "type_delete" /\ req[q].id = req[r].id /\ req[q].committed
        /\ types[req[r].id] = NoRow

====
